---------------------------- MODULE Spec2Model ----------------------------
(***************************************************************************)
(* Model of the metric pivot and aggregation helpers of                    *)
(* calibration/postprocessing_plot_util.py and of the pickled              *)
(* ExternalDemandProfile of calibration/calibration_util.py.               *)
(*                                                                         *)
(* A Python dict is an insertion-ordered sequence of <<key, value>> pairs  *)
(* with pairwise distinct keys.  A Python str is a sequence of one         *)
(* character strings, so that `a in b` is a contiguous-subsequence test.   *)
(* A datetime.time is its number of minutes since midnight.  A call is one *)
(* action: its arguments are drawn from bounded sets, its outcome is       *)
(* either a returned value or the raised exception.                        *)
(***************************************************************************)
EXTENDS Integers, Sequences, FiniteSets, TLC

VARIABLES
    op,                 \* the operation last called ("idle" before any call)
    args,               \* its arguments, a record
    ret,                \* its outcome: [err |-> "none", val |-> v] or a raise
    files,              \* the file system: path -> NoFile or the bytes stored
    ext_demand_matrix,  \* ExternalDemandProfile.ext_demand_matrix
    warned              \* number of warnings emitted by the last call

vars == <<op, args, ret, files, ext_demand_matrix, warned>>

---------------------------------------------------------------------------
(* Bounds of the model.                                                    *)

MaxFlow == 1            \* flow values are 0..MaxFlow
MaxTimeListLen == 2     \* longest time_list
MaxIdListLen == 2       \* longest list of external ids passed by a caller
MaxPairs == 3           \* longest list of (internal, external) id pairs
MaxMatrixLen == 2       \* longest ext_demand_matrix / pickled list

Times == {540, 555}                     \* 09:00 and 09:15
Flows == 0..MaxFlow
CityDetector == <<"1", "7", "a">>       \* an id that holds the city tag
PemsDetector == <<"p", "b">>            \* an id that does not
Detectors == {CityDetector, PemsDetector}

---------------------------------------------------------------------------
(* Outcomes of a call.                                                     *)

Ok(v) == [err |-> "none", val |-> v]
Raise(e) == [err |-> e, val |-> <<>>]

---------------------------------------------------------------------------
(* Python dict, insertion ordered.                                         *)

DictKeys(d) == {d[i][1] : i \in DOMAIN d}
HasKey(d, k) == \E i \in DOMAIN d : d[i][1] = k
DictGet(d, k) == d[CHOOSE i \in DOMAIN d : d[i][1] = k][2]
\* d[k] = v: an existing key keeps its position, a new key goes last.
DictPut(d, k, v) ==
    IF HasKey(d, k)
    THEN [i \in DOMAIN d |-> IF d[i][1] = k THEN <<k, v>> ELSE d[i]]
    ELSE Append(d, <<k, v>>)
IsDict(d) == \A i, j \in DOMAIN d : d[i][1] = d[j][1] => i = j

\* All sequences over S of length at most n.
SeqsUpTo(S, n) == UNION {[1..m -> S] : m \in 0..n}
\* All dicts with keys in K and values in V.
DictsOver(K, V) == {d \in SeqsUpTo(K \X V, Cardinality(K)) : IsDict(d)}
\* The dicts among them whose keys are in ascending order (integer keys).
SortedDictsOver(K, V) ==
    {d \in DictsOver(K, V) : \A i, j \in DOMAIN d : i < j => d[i][1] < d[j][1]}

---------------------------------------------------------------------------
(* __revert_dict_of_dict                                                   *)

\* Variant: every row is read from the first key's inner dict.
RECURSIVE RevertInnerFirstRow(_, _, _, _)
RevertInnerFirstRow(dict_to_return, y, i, acc) ==
    IF i > Len(dict_to_return) THEN Ok(acc)
    ELSE RevertInnerFirstRow(dict_to_return, y, i + 1,
            DictPut(acc, dict_to_return[i][1],
                    DictGet(dict_to_return[1][2], y)))

\* Variant: a key missing under a later time is skipped (dict.get style).
RECURSIVE RevertInnerSkipMissing(_, _, _, _)
RevertInnerSkipMissing(dict_to_return, y, i, acc) ==
    IF i > Len(dict_to_return) THEN Ok(acc)
    ELSE LET x == dict_to_return[i][1]
             inner == dict_to_return[i][2]
         IN  RevertInnerSkipMissing(dict_to_return, y, i + 1,
                IF HasKey(inner, y) THEN DictPut(acc, x, DictGet(inner, y))
                ELSE acc)

\* {x: dict_to_return[x][y] for x in dict_to_return}, from the i-th key on.
RECURSIVE RevertInner(_, _, _, _)
RevertInner(dict_to_return, y, i, acc) ==
    IF i > Len(dict_to_return) THEN Ok(acc)
    ELSE LET x == dict_to_return[i][1]
             inner == dict_to_return[i][2]
         IN  IF ~HasKey(inner, y) THEN Raise("KeyError")
             ELSE RevertInner(dict_to_return, y, i + 1,
                              DictPut(acc, x, DictGet(inner, y)))

\* {y: {...} for y in first}, from the j-th key of first on.
RECURSIVE RevertOuter(_, _, _, _)
RevertOuter(dict_to_return, first, j, acc) ==
    IF j > Len(first) THEN Ok(acc)
    ELSE LET y == first[j][1]
             row == RevertInner(dict_to_return, y, 1, <<>>)
         IN  IF row.err # "none" THEN row
             ELSE RevertOuter(dict_to_return, first, j + 1,
                              DictPut(acc, y, row.val))

\* Variant: an empty table is returned as an empty table.
revert_dict_of_dict_empty_ok(dict_to_return) ==
    IF Len(dict_to_return) = 0 THEN Ok(<<>>)
    ELSE RevertOuter(dict_to_return, dict_to_return[1][2], 1, <<>>)

revert_dict_of_dict(dict_to_return) ==
    IF Len(dict_to_return) = 0 THEN Raise("IndexError")  \* list(...)[0]
    ELSE RevertOuter(dict_to_return, dict_to_return[1][2], 1, <<>>)

---------------------------------------------------------------------------
(* The Simulation Output Source.  A micro database answers                 *)
(* get_detector_flow(detector, time); a macro database, one per time,      *)
(* answers get_detector_flow(detector).                                    *)

MicroDatabases == [Detectors \X Times -> Flows]
MacroDatabases == [Detectors -> Flows]
micro_get_detector_flow(db, detector_external_id, time) ==
    db[<<detector_external_id, time>>]
macro_get_detector_flow(db, detector_external_id) == db[detector_external_id]

---------------------------------------------------------------------------
(* process_micro_simulated_flow_data                                       *)

\* {detector_external_id: get_detector_flow(...) for ... in the list}
RECURSIVE MicroFlowAtTime(_, _, _, _, _)
MicroFlowAtTime(db, time, detector_external_id_list, j, acc) ==
    IF j > Len(detector_external_id_list) THEN acc
    ELSE MicroFlowAtTime(db, time, detector_external_id_list, j + 1,
            DictPut(acc, detector_external_id_list[j],
                    micro_get_detector_flow(db, detector_external_id_list[j],
                                            time)))

\* {time: {...} for time in time_list}
RECURSIVE MicroFlowPerTime(_, _, _, _, _)
MicroFlowPerTime(db, time_list, detector_external_id_list, i, acc) ==
    IF i > Len(time_list) THEN acc
    ELSE MicroFlowPerTime(db, time_list, detector_external_id_list, i + 1,
            DictPut(acc, time_list[i],
                    MicroFlowAtTime(db, time_list[i],
                                    detector_external_id_list, 1, <<>>)))

process_micro_simulated_flow_data(db, time_list, detector_external_id_list) ==
    LET simulated_flow_per_time ==
            MicroFlowPerTime(db, time_list, detector_external_id_list, 1, <<>>)
        reverted == revert_dict_of_dict(simulated_flow_per_time)
    IN  IF reverted.err # "none" THEN reverted
        ELSE Ok(<<simulated_flow_per_time, reverted.val>>)

---------------------------------------------------------------------------
(* process_macro_simulated_flow_data                                       *)

RECURSIVE MacroFlowAtTime(_, _, _, _)
MacroFlowAtTime(db, detector_external_id_list, j, acc) ==
    IF j > Len(detector_external_id_list) THEN acc
    ELSE MacroFlowAtTime(db, detector_external_id_list, j + 1,
            DictPut(acc, detector_external_id_list[j],
                    macro_get_detector_flow(db, detector_external_id_list[j])))

\* {time: {...} for time in simulation_results_database}
RECURSIVE MacroFlowPerTime(_, _, _, _)
MacroFlowPerTime(simulation_results_database, detector_external_id_list, i, acc) ==
    IF i > Len(simulation_results_database) THEN acc
    ELSE MacroFlowPerTime(simulation_results_database,
            detector_external_id_list, i + 1,
            DictPut(acc, simulation_results_database[i][1],
                    MacroFlowAtTime(simulation_results_database[i][2],
                                    detector_external_id_list, 1, <<>>)))

process_macro_simulated_flow_data(simulation_results_database, detector_external_id_list) ==
    LET simulated_flow_per_time ==
            MacroFlowPerTime(simulation_results_database,
                             detector_external_id_list, 1, <<>>)
        reverted == revert_dict_of_dict(simulated_flow_per_time)
    IN  IF reverted.err # "none" THEN reverted
        ELSE Ok(<<simulated_flow_per_time, reverted.val>>)

---------------------------------------------------------------------------
(* The calls of the transposition and of the two functions that end in it. *)

FlowTables == DictsOver(Times, DictsOver(Detectors, Flows))
TimeLists == SeqsUpTo(Times, MaxTimeListLen)
DetectorLists == SeqsUpTo(Detectors, MaxIdListLen)

NoArgs == [none |-> TRUE]

Idle ==
    /\ op = "idle"
    /\ args = NoArgs
    /\ ret = Ok(<<>>)
    /\ files = <<>>
    /\ ext_demand_matrix = <<>>
    /\ warned = 0

CallRevert ==
    /\ op = "idle"
    /\ \E table \in FlowTables :
        /\ op' = "revert_dict_of_dict"
        /\ args' = [dict_to_return |-> table]
        /\ ret' = revert_dict_of_dict(table)
    /\ UNCHANGED <<files, ext_demand_matrix, warned>>

CallProcessMicro ==
    /\ op = "idle"
    /\ \E db \in MicroDatabases, time_list \in TimeLists,
          detector_external_id_list \in DetectorLists :
        /\ op' = "process_micro_simulated_flow_data"
        /\ args' = [simulation_results_database |-> db,
                    time_list |-> time_list,
                    detector_external_id_list |-> detector_external_id_list]
        /\ ret' = process_micro_simulated_flow_data(
                      db, time_list, detector_external_id_list)
    /\ UNCHANGED <<files, ext_demand_matrix, warned>>

CallProcessMacro ==
    /\ op = "idle"
    /\ \E dbs \in DictsOver(Times, MacroDatabases),
          detector_external_id_list \in DetectorLists :
        /\ op' = "process_macro_simulated_flow_data"
        /\ args' = [simulation_results_database |-> dbs,
                    detector_external_id_list |-> detector_external_id_list]
        /\ ret' = process_macro_simulated_flow_data(
                      dbs, detector_external_id_list)
    /\ UNCHANGED <<files, ext_demand_matrix, warned>>

NextPivot == CallRevert \/ CallProcessMicro \/ CallProcessMacro
SpecPivot == Idle /\ [][NextPivot]_vars

---------------------------------------------------------------------------
(* Properties of the transposition.                                        *)

\* Every time key holds the same set of entity identifiers.
UniformTable(T) == \A i \in DOMAIN T : DictKeys(T[i][2]) = DictKeys(T[1][2])

\* The <<entity, time, value>> entries of a time-keyed / entity-keyed table.
EntriesByTime(T) ==
    UNION {{<<T[i][2][j][1], T[i][1], T[i][2][j][2]>> : j \in DOMAIN T[i][2]}
           : i \in DOMAIN T}
EntriesByEntity(R) ==
    UNION {{<<R[i][1], R[i][2][j][1], R[i][2][j][2]>> : j \in DOMAIN R[i][2]}
           : i \in DOMAIN R}

\* R holds exactly the entries of T, each once, and no key without entries
\* other than the entities T lists.
IsTransposeOf(R, T) ==
    /\ IsDict(R)
    /\ \A i \in DOMAIN R : IsDict(R[i][2])
    /\ EntriesByEntity(R) = EntriesByTime(T)
    /\ DictKeys(R) = UNION {DictKeys(T[i][2]) : i \in DOMAIN T}
    /\ \A i \in DOMAIN T : \A j \in DOMAIN T[i][2] :
          LET t == T[i][1]
              e == T[i][2][j][1]
          IN  /\ HasKey(R, e)
              /\ HasKey(DictGet(R, e), t)
              /\ DictGet(DictGet(R, e), t) = T[i][2][j][2]

\* C1: for a non-empty time-keyed table with the same entity set under
\* every time key, the transposition returns R with R[e][t] = T[t][e] for
\* every (t, e) of T and exactly those entries; the second table returned by
\* process_micro/macro_simulated_flow_data is that transposition of the first.
C1_TransposeExact ==
    /\ (op = "revert_dict_of_dict" /\ args.dict_to_return # <<>>
            /\ UniformTable(args.dict_to_return))
        => (ret.err = "none" /\ IsTransposeOf(ret.val, args.dict_to_return))
    /\ (op = "process_micro_simulated_flow_data" /\ args.time_list # <<>>)
        => (ret.err = "none" /\ IsTransposeOf(ret.val[2], ret.val[1]))
    /\ (op = "process_macro_simulated_flow_data"
            /\ args.simulation_results_database # <<>>)
        => (ret.err = "none" /\ IsTransposeOf(ret.val[2], ret.val[1]))

\* A uniform 2 x 2 table whose values differ between the two times.
C1_Witness ==
    /\ op = "revert_dict_of_dict"
    /\ Len(args.dict_to_return) = 2
    /\ UniformTable(args.dict_to_return)
    /\ Len(args.dict_to_return[1][2]) = 2
    /\ args.dict_to_return[1][2][1] # args.dict_to_return[2][2][1]
    /\ ret.err = "none"
    /\ Len(ret.val) = 2

\* A later time key lacks an entity that the first time key holds.
LaterKeyLacksFirstEntity(T) ==
    \E i \in DOMAIN T : i > 1 /\ DictKeys(T[1][2]) \ DictKeys(T[i][2]) # {}

\* C5 as stated: with a later time key lacking an entity of the first time
\* key, the transposition raises nothing and returns a table in which that
\* entity has no entry for that time key.
C5_SilentlyOmitted ==
    (op = "revert_dict_of_dict"
        /\ LaterKeyLacksFirstEntity(args.dict_to_return))
    => /\ ret.err = "none"
       /\ \A i \in DOMAIN args.dict_to_return :
            \A e \in DictKeys(args.dict_to_return[1][2])
                        \ DictKeys(args.dict_to_return[i][2]) :
                /\ HasKey(ret.val, e)
                /\ ~HasKey(DictGet(ret.val, e), args.dict_to_return[i][1])

\* C5 amended: with a later time key lacking an entity of the first time
\* key, the transposition raises the missing-key error (KeyError) and
\* returns no table.
C5_MissingKeyRaises ==
    (op = "revert_dict_of_dict"
        /\ LaterKeyLacksFirstEntity(args.dict_to_return))
    => (ret.err = "KeyError" /\ ret.val = <<>>)

C5_Witness ==
    /\ op = "revert_dict_of_dict"
    /\ Len(args.dict_to_return) = 2
    /\ DictKeys(args.dict_to_return[1][2]) = Detectors
    /\ DictKeys(args.dict_to_return[2][2]) = {PemsDetector}
    /\ ret.err = "KeyError"

\* C6: the transposition of an empty time-keyed table fails (IndexError on
\* the first inner dict) instead of returning an empty table, also when
\* reached through process_micro_simulated_flow_data with an empty time_list
\* or process_macro_simulated_flow_data with an empty database mapping.
C6_EmptyInputFails ==
    /\ (op = "revert_dict_of_dict" /\ args.dict_to_return = <<>>)
        => ret = Raise("IndexError")
    /\ (op = "process_micro_simulated_flow_data" /\ args.time_list = <<>>)
        => ret = Raise("IndexError")
    /\ (op = "process_macro_simulated_flow_data"
            /\ args.simulation_results_database = <<>>)
        => ret = Raise("IndexError")

C6_Witness ==
    /\ op = "process_macro_simulated_flow_data"
    /\ args.simulation_results_database = <<>>
    /\ Len(args.detector_external_id_list) = 2
    /\ ret.err = "IndexError"

---------------------------------------------------------------------------
(* convert_flow_per_time_to_list                                           *)

\* Optional argument: None is <<>>, a given value x is <<x>>.
None == <<>>
Some(x) == <<x>>

\* Python `a in b` on two strings.
IsSubstr(a, b) ==
    \E k \in 0..(Len(b) - Len(a)) : SubSeq(b, k + 1, k + Len(a)) = a

\* np.array(list).reshape(-1, 1): one row of one value per element.
Reshape(list) == [k \in DOMAIN list |-> <<list[k]>>]

\* Variant of the inner loop: a detector missing from the simulated dict
\* is skipped after its real value was appended.
RECURSIVE ConvertAtTimeSkipMissing(_, _, _, _)
ConvertAtTimeSkipMissing(real_flow_dict, simulated_flow_dict, j, acc) ==
    IF j > Len(real_flow_dict) THEN Ok(acc)
    ELSE LET detector_external_id == real_flow_dict[j][1]
             real_flow_value == real_flow_dict[j][2]
         IN  ConvertAtTimeSkipMissing(real_flow_dict, simulated_flow_dict,
                j + 1,
                <<Append(acc[1], real_flow_value),
                  IF HasKey(simulated_flow_dict, detector_external_id)
                  THEN Append(acc[2], DictGet(simulated_flow_dict,
                                              detector_external_id))
                  ELSE acc[2]>>)

\* Variant of the inner loop: the simulated value is read at the same
\* position of the simulated dict instead of under the same detector.
RECURSIVE ConvertAtTimeByPosition(_, _, _, _)
ConvertAtTimeByPosition(real_flow_dict, simulated_flow_dict, j, acc) ==
    IF j > Len(real_flow_dict) THEN Ok(acc)
    ELSE IF j > Len(simulated_flow_dict) THEN Raise("KeyError")
    ELSE ConvertAtTimeByPosition(real_flow_dict, simulated_flow_dict, j + 1,
            <<Append(acc[1], real_flow_dict[j][2]),
              Append(acc[2], simulated_flow_dict[j][2])>>)

\* for detector_external_id, real_flow_value in real_flow_dict.items():
\* acc is <<all_real_flow_list, all_simulated_flow_list>>.
RECURSIVE ConvertAtTime(_, _, _, _)
ConvertAtTime(real_flow_dict, simulated_flow_dict, j, acc) ==
    IF j > Len(real_flow_dict) THEN Ok(acc)
    ELSE LET detector_external_id == real_flow_dict[j][1]
             real_flow_value == real_flow_dict[j][2]
         IN  IF ~HasKey(simulated_flow_dict, detector_external_id)
             THEN Raise("KeyError")
             ELSE ConvertAtTime(real_flow_dict, simulated_flow_dict, j + 1,
                    <<Append(acc[1], real_flow_value),
                      Append(acc[2], DictGet(simulated_flow_dict,
                                             detector_external_id))>>)

\* Variant of the city branch: the membership test has its operands
\* reversed (detector_external_id in city_common_id).
RECURSIVE ConvertCityAtTimeReversedIn(_, _, _, _, _)
ConvertCityAtTimeReversedIn(real_flow_dict, simulated_flow_dict, city_common_id, j, acc) ==
    IF j > Len(real_flow_dict) THEN Ok(acc)
    ELSE LET detector_external_id == real_flow_dict[j][1]
             real_flow_value == real_flow_dict[j][2]
         IN  IF ~HasKey(simulated_flow_dict, detector_external_id)
             THEN Raise("KeyError")
             ELSE LET simulated_flow_value ==
                          DictGet(simulated_flow_dict, detector_external_id)
                  IN  ConvertCityAtTimeReversedIn(real_flow_dict,
                        simulated_flow_dict, city_common_id, j + 1,
                        IF IsSubstr(detector_external_id, city_common_id)
                        THEN <<Append(acc[1], real_flow_value),
                               Append(acc[2], simulated_flow_value),
                               acc[3], acc[4]>>
                        ELSE <<acc[1], acc[2],
                               Append(acc[3], real_flow_value),
                               Append(acc[4], simulated_flow_value)>>)

\* The same loop with city_common_id: acc is <<city_real_flow_list,
\* city_simulated_flow_list, pems_real_flow_list, pems_simulated_flow_list>>.
RECURSIVE ConvertCityAtTime(_, _, _, _, _)
ConvertCityAtTime(real_flow_dict, simulated_flow_dict, city_common_id, j, acc) ==
    IF j > Len(real_flow_dict) THEN Ok(acc)
    ELSE LET detector_external_id == real_flow_dict[j][1]
             real_flow_value == real_flow_dict[j][2]
         IN  IF ~HasKey(simulated_flow_dict, detector_external_id)
             THEN Raise("KeyError")
             ELSE LET simulated_flow_value ==
                          DictGet(simulated_flow_dict, detector_external_id)
                  IN  ConvertCityAtTime(real_flow_dict, simulated_flow_dict,
                        city_common_id, j + 1,
                        IF IsSubstr(city_common_id, detector_external_id)
                        THEN <<Append(acc[1], real_flow_value),
                               Append(acc[2], simulated_flow_value),
                               acc[3], acc[4]>>
                        ELSE <<acc[1], acc[2],
                               Append(acc[3], real_flow_value),
                               Append(acc[4], simulated_flow_value)>>)

\* Variant of the outer loop: a time missing from either table is skipped.
RECURSIVE ConvertTimesSkipMissing(_, _, _, _, _, _)
ConvertTimesSkipMissing(real_flow_per_time, simulated_flow_per_time, time_list, city_common_id, i, acc) ==
    IF i > Len(time_list) THEN Ok(acc)
    ELSE LET time == time_list[i]
         IN  IF ~HasKey(real_flow_per_time, time)
                \/ ~HasKey(simulated_flow_per_time, time)
             THEN ConvertTimesSkipMissing(real_flow_per_time,
                    simulated_flow_per_time, time_list, city_common_id,
                    i + 1, acc)
             ELSE LET real_flow_dict == DictGet(real_flow_per_time, time)
                      simulated_flow_dict ==
                          DictGet(simulated_flow_per_time, time)
                      step == IF city_common_id = None
                              THEN ConvertAtTime(real_flow_dict,
                                     simulated_flow_dict, 1, acc)
                              ELSE ConvertCityAtTime(real_flow_dict,
                                     simulated_flow_dict, city_common_id[1],
                                     1, acc)
                  IN  IF step.err # "none" THEN step
                      ELSE ConvertTimesSkipMissing(real_flow_per_time,
                             simulated_flow_per_time, time_list,
                             city_common_id, i + 1, step.val)

\* for time in time_list: (either branch of the function)
RECURSIVE ConvertTimes(_, _, _, _, _, _)
ConvertTimes(real_flow_per_time, simulated_flow_per_time, time_list, city_common_id, i, acc) ==
    IF i > Len(time_list) THEN Ok(acc)
    ELSE LET time == time_list[i]
         IN  IF ~HasKey(real_flow_per_time, time) THEN Raise("KeyError")
             ELSE IF ~HasKey(simulated_flow_per_time, time)
             THEN Raise("KeyError")
             ELSE LET real_flow_dict == DictGet(real_flow_per_time, time)
                      simulated_flow_dict ==
                          DictGet(simulated_flow_per_time, time)
                      step == IF city_common_id = None
                              THEN ConvertAtTime(real_flow_dict,
                                     simulated_flow_dict, 1, acc)
                              ELSE ConvertCityAtTime(real_flow_dict,
                                     simulated_flow_dict, city_common_id[1],
                                     1, acc)
                  IN  IF step.err # "none" THEN step
                      ELSE ConvertTimes(real_flow_per_time,
                             simulated_flow_per_time, time_list,
                             city_common_id, i + 1, step.val)

convert_flow_per_time_to_list(real_flow_per_time, simulated_flow_per_time, time_list, city_common_id) ==
    IF city_common_id = None
    THEN LET lists == ConvertTimes(real_flow_per_time,
                        simulated_flow_per_time, time_list, city_common_id,
                        1, <<<<>>, <<>>>>)
         IN  IF lists.err # "none" THEN lists
             ELSE IF Len(lists.val[1]) # Len(lists.val[2])
             THEN Raise("AssertionError")
             ELSE Ok(<<Reshape(lists.val[1]), Reshape(lists.val[2])>>)
    ELSE LET lists == ConvertTimes(real_flow_per_time,
                        simulated_flow_per_time, time_list, city_common_id,
                        1, <<<<>>, <<>>, <<>>, <<>>>>)
         IN  IF lists.err # "none" THEN lists
             ELSE IF Len(lists.val[1]) # Len(lists.val[2])
             THEN Raise("AssertionError")
             ELSE IF Len(lists.val[3]) # Len(lists.val[4])
             THEN Raise("AssertionError")
             ELSE Ok(<<Reshape(lists.val[1]), Reshape(lists.val[2]),
                       Reshape(lists.val[3]), Reshape(lists.val[4])>>)

---------------------------------------------------------------------------
(* The calls of convert_flow_per_time_to_list.  The real table lists its   *)
(* times in ascending order and its detectors in any order, with any       *)
(* flows.  The simulated table lists any times and, under each, any        *)
(* detectors; the flow it holds for a detector at a time is the one flow   *)
(* the Simulation Output Source reports for them, which differs from       *)
(* every other flow of either table.                                       *)

SimulatedFlowOf(detector_external_id, time) ==
    time + (IF detector_external_id = CityDetector THEN 1 ELSE 2)

DetectorOrder == <<CityDetector, PemsDetector>>
TimeOrder == <<540, 555>>

\* The members of `order` that are in `keys`, in that order.
KeptKeys(order, keys) ==
    LET Kept(k) == k \in keys
    IN  SelectSeq(order, Kept)

SimulatedRowOf(time, detectors) ==
    LET kept == KeptKeys(DetectorOrder, detectors)
    IN  [j \in DOMAIN kept |-> <<kept[j], SimulatedFlowOf(kept[j], time)>>]

\* The simulated table that holds, under each time t of DOMAIN present, the
\* detectors present[t].
SimulatedTableOf(present) ==
    LET kept == KeptKeys(TimeOrder, DOMAIN present)
    IN  [i \in DOMAIN kept |->
            <<kept[i], SimulatedRowOf(kept[i], present[kept[i]])>>]

RealFlowTables == SortedDictsOver(Times, DictsOver(Detectors, Flows))
SimulatedFlowTables ==
    UNION {{SimulatedTableOf(present) : present \in [T -> SUBSET Detectors]}
           : T \in SUBSET Times}
CityTag == <<"1", "7">>
CityCommonIds == {None, Some(CityTag)}

CallConvert ==
    /\ op = "idle"
    /\ \E real_flow_per_time \in RealFlowTables,
          simulated_flow_per_time \in SimulatedFlowTables,
          time_list \in TimeLists, city_common_id \in CityCommonIds :
        /\ op' = "convert_flow_per_time_to_list"
        /\ args' = [real_flow_per_time |-> real_flow_per_time,
                    simulated_flow_per_time |-> simulated_flow_per_time,
                    time_list |-> time_list,
                    city_common_id |-> city_common_id]
        /\ ret' = convert_flow_per_time_to_list(real_flow_per_time,
                      simulated_flow_per_time, time_list, city_common_id)
    /\ UNCHANGED <<files, ext_demand_matrix, warned>>

NextConvert == CallConvert
SpecConvert == Idle /\ [][NextConvert]_vars

---------------------------------------------------------------------------
(* Properties of convert_flow_per_time_to_list.                            *)

IsConvert == op = "convert_flow_per_time_to_list"

\* C2: whenever convert_flow_per_time_to_list returns, each returned
\* (real, simulated) pair has equal length (one pair without
\* city_common_id, the city pair and the PeMS pair with it), and the length
\* assertions that end the function never fail.
C2_PairedLengths ==
    IsConvert =>
        /\ ret.err # "AssertionError"
        /\ ret.err = "none" =>
            IF args.city_common_id = None
            THEN Len(ret.val) = 2 /\ Len(ret.val[1]) = Len(ret.val[2])
            ELSE /\ Len(ret.val) = 4
                 /\ Len(ret.val[1]) = Len(ret.val[2])
                 /\ Len(ret.val[3]) = Len(ret.val[4])

\* Both partitions are filled, with different lengths.
C2_Witness ==
    /\ IsConvert
    /\ args.city_common_id # None
    /\ ret.err = "none"
    /\ Len(ret.val[1]) = 2
    /\ Len(ret.val[3]) = 1

\* Number of samples the times before position i of time_list contribute.
RECURSIVE SamplesBefore(_, _, _)
SamplesBefore(real_table, time_list, i) ==
    IF i <= 1 THEN 0
    ELSE SamplesBefore(real_table, time_list, i - 1)
         + Len(DictGet(real_table, time_list[i - 1]))

\* C3: without city_common_id the returned sequences hold, at the same
\* index, real_table[t][e] and simulated_table[t][e] of the same (t, e),
\* the pairs being enumerated in the order of time_list (a time listed twice
\* counts twice) and, within a time, in the order of real_table[t]; nothing
\* else is returned, so a detector only in simulated_table[t] adds nothing.
C3_TimeMajorPairs ==
    (IsConvert /\ args.city_common_id = None /\ ret.err = "none") =>
        LET real_table == args.real_flow_per_time
            simulated_table == args.simulated_flow_per_time
            time_list == args.time_list
        IN  /\ \A i \in DOMAIN time_list :
                 /\ HasKey(real_table, time_list[i])
                 /\ HasKey(simulated_table, time_list[i])
            /\ Len(ret.val[1]) =
                   SamplesBefore(real_table, time_list, Len(time_list) + 1)
            /\ Len(ret.val[2]) = Len(ret.val[1])
            /\ \A i \in DOMAIN time_list :
                 LET t == time_list[i]
                     row == DictGet(real_table, t)
                     base == SamplesBefore(real_table, time_list, i)
                 IN  \A j \in DOMAIN row :
                       /\ ret.val[1][base + j] = <<row[j][2]>>
                       /\ HasKey(DictGet(simulated_table, t), row[j][1])
                       /\ ret.val[2][base + j] =
                            <<DictGet(DictGet(simulated_table, t), row[j][1])>>

\* Times listed in descending order, the detectors of the first in the
\* order PeMS, city, and a detector only the simulated table holds.
C3_Witness ==
    /\ IsConvert
    /\ args.city_common_id = None
    /\ args.time_list = <<555, 540>>
    /\ HasKey(args.real_flow_per_time, 555)
    /\ Len(DictGet(args.real_flow_per_time, 555)) = 2
    /\ DictGet(args.real_flow_per_time, 555)[1][1] = PemsDetector
    /\ HasKey(args.real_flow_per_time, 540)
    /\ HasKey(args.simulated_flow_per_time, 540)
    /\ DictKeys(DictGet(args.real_flow_per_time, 540)) = {CityDetector}
    /\ DictKeys(DictGet(args.simulated_flow_per_time, 540)) = Detectors
    /\ ret.err = "none"
    /\ Len(ret.val[1]) = 3

\* Some listed time is in neither or only one table, or some detector of
\* the real table at a listed time is not in the simulated table at it.
MissingKeyInput ==
    \E i \in DOMAIN args.time_list :
        LET t == args.time_list[i]
        IN  \/ ~HasKey(args.real_flow_per_time, t)
            \/ ~HasKey(args.simulated_flow_per_time, t)
            \/ DictKeys(DictGet(args.real_flow_per_time, t))
                 \ DictKeys(DictGet(args.simulated_flow_per_time, t)) # {}

\* C4: convert_flow_per_time_to_list fails with the missing-key error
\* (KeyError) and returns nothing whenever a time of time_list is absent
\* from the real or the simulated table, or a detector of real_table[t] is
\* absent from simulated_table[t], with and without city_common_id.
C4_MissingKeyFails ==
    (IsConvert /\ MissingKeyInput) => ret = Raise("KeyError")

\* With city_common_id: the first time is complete and not empty, the
\* second lacks a detector in the simulated table.
C4_Witness ==
    /\ IsConvert
    /\ args.city_common_id # None
    /\ args.time_list = <<540, 555>>
    /\ HasKey(args.real_flow_per_time, 540)
    /\ HasKey(args.real_flow_per_time, 555)
    /\ HasKey(args.simulated_flow_per_time, 540)
    /\ HasKey(args.simulated_flow_per_time, 555)
    /\ DictKeys(DictGet(args.real_flow_per_time, 540)) = Detectors
    /\ DictKeys(DictGet(args.simulated_flow_per_time, 540)) = Detectors
    /\ DictKeys(DictGet(args.real_flow_per_time, 555)) = Detectors
    /\ DictKeys(DictGet(args.simulated_flow_per_time, 555)) = {CityDetector}
    /\ ret.err = "KeyError"

---------------------------------------------------------------------------
(* find_centroid_internal_ids                                              *)

InternalIds == {101, 102}
ExternalIds == {"ext_1", "ext_2", "ext_3"}
\* get_centroid_ext_int_ids(): (internal id, external id) pairs, in order.
CentroidIdPairs == SeqsUpTo(InternalIds \X ExternalIds, MaxPairs)

\* Python `x in list`.
InList(x, list) == \E k \in DOMAIN list : list[k] = x

\* Variant of the loop: every pair is entered, requested or not.
RECURSIVE FindCentroidLoopNoFilter(_, _, _, _)
FindCentroidLoopNoFilter(all_internal_external_ids, centroids_ext_id_list, i, centroid_ext_to_int_id) ==
    IF i > Len(all_internal_external_ids) THEN centroid_ext_to_int_id
    ELSE FindCentroidLoopNoFilter(all_internal_external_ids,
            centroids_ext_id_list, i + 1,
            DictPut(centroid_ext_to_int_id,
                    all_internal_external_ids[i][2],
                    all_internal_external_ids[i][1]))

\* for id_pair in all_internal_external_ids: id_pair[0] is the internal id
\* (the pair's first member), id_pair[1] the external id (its second).
RECURSIVE FindCentroidLoop(_, _, _, _)
FindCentroidLoop(all_internal_external_ids, centroids_ext_id_list, i, centroid_ext_to_int_id) ==
    IF i > Len(all_internal_external_ids) THEN centroid_ext_to_int_id
    ELSE LET id_pair == all_internal_external_ids[i]
         IN  FindCentroidLoop(all_internal_external_ids,
                centroids_ext_id_list, i + 1,
                IF InList(id_pair[2], centroids_ext_id_list)
                THEN DictPut(centroid_ext_to_int_id, id_pair[2], id_pair[1])
                ELSE centroid_ext_to_int_id)

find_centroid_internal_ids(all_internal_external_ids, centroids_ext_id_list) ==
    Ok(FindCentroidLoop(all_internal_external_ids, centroids_ext_id_list,
                        1, <<>>))

CallFindCentroid ==
    /\ op = "idle"
    /\ \E all_internal_external_ids \in CentroidIdPairs,
          centroids_ext_id_list \in SeqsUpTo(ExternalIds, MaxIdListLen) :
        /\ op' = "find_centroid_internal_ids"
        /\ args' = [all_internal_external_ids |-> all_internal_external_ids,
                    centroids_ext_id_list |-> centroids_ext_id_list]
        /\ ret' = find_centroid_internal_ids(all_internal_external_ids,
                                             centroids_ext_id_list)
    /\ UNCHANGED <<files, ext_demand_matrix, warned>>

NextCentroid == CallFindCentroid
SpecCentroid == Idle /\ [][NextCentroid]_vars

\* C7: find_centroid_internal_ids raises nothing and returns a mapping
\* whose keys are exactly the requested external ids that are the external
\* member of some pair of the source, each mapped to an internal id the
\* source pairs with it; ids not found and ids not requested are absent.
C7_FoundRequestedOnly ==
    op = "find_centroid_internal_ids" =>
        LET pairs == args.all_internal_external_ids
            requested == {args.centroids_ext_id_list[k] :
                            k \in DOMAIN args.centroids_ext_id_list}
            found == {pairs[k][2] : k \in DOMAIN pairs}
        IN  /\ ret.err = "none"
            /\ IsDict(ret.val)
            /\ DictKeys(ret.val) = requested \cap found
            /\ \A k \in DOMAIN ret.val :
                 \E n \in DOMAIN pairs :
                    pairs[n] = <<ret.val[k][2], ret.val[k][1]>>

\* One requested id is paired twice, one requested id is not in the source,
\* one id of the source is not requested.
C7_Witness ==
    /\ op = "find_centroid_internal_ids"
    /\ args.all_internal_external_ids =
          <<<<101, "ext_1">>, <<102, "ext_3">>, <<102, "ext_1">>>>
    /\ args.centroids_ext_id_list = <<"ext_2", "ext_1">>
    /\ ret = Ok(<<<<"ext_1", 102>>>>)

---------------------------------------------------------------------------
(* ExternalDemandProfile and its pickle file.                              *)
(*                                                                         *)
(* A Python object is [cls, v]: a list holds its items in v, any other     *)
(* object holds one identifying string.  A file is its byte string, here a *)
(* sequence of pickle opcodes and operands.                                *)

ListObj(items) == [cls |-> "list", v |-> items]
DemandData(k) == [cls |-> "ExternalDemandData", v |-> <<k>>]
IntObj(k) == [cls |-> "int", v |-> <<k>>]
DemandDatas == {DemandData("1"), DemandData("2")}

NoFile == [exists |-> FALSE, bytes |-> <<>>]
FileOf(bytes) == [exists |-> TRUE, bytes |-> bytes]

\* pickle.dump: "]" EMPTY_LIST, "(" MARK, "e" APPENDS, "." STOP,
\* "K" an int, "o" an instance of the class named next.
DumpItem(o) ==
    IF o.cls = "int" THEN <<"K", o.v[1]>> ELSE <<"o", o.cls, o.v[1]>>

RECURSIVE DumpItems(_, _)
DumpItems(items, i) ==
    IF i > Len(items) THEN <<>>
    ELSE DumpItem(items[i]) \o DumpItems(items, i + 1)

pickle_dump(obj) ==
    IF obj.cls = "list"
    THEN <<"]">>
         \o (IF Len(obj.v) = 0 THEN <<>>
             ELSE <<"(">> \o DumpItems(obj.v, 1) \o <<"e">>)
         \o <<".">>
    ELSE DumpItem(obj) \o <<".">>

\* pickle.load of the items after MARK, up to APPENDS and STOP.
RECURSIVE LoadItems(_, _, _)
LoadItems(bytes, pos, acc) ==
    IF pos > Len(bytes) THEN Raise("EOFError")
    ELSE IF bytes[pos] = "e"
    THEN IF pos + 1 <= Len(bytes) /\ bytes[pos + 1] = "."
         THEN Ok(ListObj(acc)) ELSE Raise("EOFError")
    ELSE IF bytes[pos] = "K"
    THEN IF pos + 1 > Len(bytes) THEN Raise("EOFError")
         ELSE LoadItems(bytes, pos + 2, Append(acc, IntObj(bytes[pos + 1])))
    ELSE IF bytes[pos] = "o"
    THEN IF pos + 2 > Len(bytes) THEN Raise("EOFError")
         ELSE LoadItems(bytes, pos + 3,
                Append(acc, [cls |-> bytes[pos + 1], v |-> <<bytes[pos + 2]>>]))
    ELSE Raise("UnpicklingError")

\* pickle.load: reads one object, up to its STOP; what follows is not read.
pickle_load(bytes) ==
    IF Len(bytes) = 0 THEN Raise("EOFError")
    ELSE IF bytes[1] = "]"
    THEN IF Len(bytes) < 2 THEN Raise("EOFError")
         ELSE IF bytes[2] = "." THEN Ok(ListObj(<<>>))
         ELSE IF bytes[2] = "(" THEN LoadItems(bytes, 3, <<>>)
         ELSE Raise("UnpicklingError")
    ELSE IF bytes[1] = "K"
    THEN IF Len(bytes) >= 3 /\ bytes[3] = "." THEN Ok(IntObj(bytes[2]))
         ELSE Raise("EOFError")
    ELSE IF bytes[1] = "o"
    THEN IF Len(bytes) >= 4 /\ bytes[4] = "."
         THEN Ok([cls |-> bytes[2], v |-> <<bytes[3]>>])
         ELSE Raise("EOFError")
    ELSE Raise("UnpicklingError")

NoDataError == "Exception: ExternalDemandProfile has no data. Export aborted."
TypeMismatchError == "Exception: File has incorrect data type. Import aborted."

\* Variant: the file is opened for appending.
OpenAbAndDump(file, obj) == FileOf(file.bytes \o pickle_dump(obj))

\* open(filepath, 'wb') and pickle.dump: the file is truncated, then written.
OpenWbAndDump(file, obj) == FileOf(pickle_dump(obj))

\* Variant of export_to_file: the file is opened before the empty check.
export_to_file_open_first(matrix, fs, filepath) ==
    IF Len(matrix) = 0
    THEN [ret |-> Raise(NoDataError),
          files |-> [fs EXCEPT ![filepath] = FileOf(<<>>)],
          warned |-> 0]
    ELSE [ret |-> Ok(<<>>),
          files |-> [fs EXCEPT ![filepath] =
                        OpenWbAndDump(fs[filepath], ListObj(matrix))],
          warned |-> IF fs[filepath].exists THEN 1 ELSE 0]

\* ExternalDemandProfile.export_to_file: the outcome, the file system and
\* the number of warnings after the call.
export_to_file(matrix, fs, filepath) ==
    IF Len(matrix) = 0
    THEN [ret |-> Raise(NoDataError), files |-> fs, warned |-> 0]
    ELSE [ret |-> Ok(<<>>),
          files |-> [fs EXCEPT ![filepath] =
                        OpenWbAndDump(fs[filepath], ListObj(matrix))],
          warned |-> IF fs[filepath].exists THEN 1 ELSE 0]

\* ExternalDemandProfile.__import_from_file: the new ext_demand_matrix, or
\* the exception raised.
import_from_file(fs, filepath) ==
    IF ~fs[filepath].exists THEN Raise("FileNotFoundError")
    ELSE LET loaded == pickle_load(fs[filepath].bytes)
         IN  IF loaded.err # "none" THEN loaded
             ELSE LET imported_data == loaded.val
                  IN  IF imported_data.cls # "list"
                      THEN Raise(TypeMismatchError)
                      ELSE IF Len(imported_data.v) = 0
                      THEN Raise("IndexError")      \* imported_data[0]
                      ELSE IF imported_data.v[1].cls = "ExternalDemandData"
                      THEN Ok(imported_data.v)
                      ELSE Raise(TypeMismatchError)

\* ExternalDemandProfile.__init__
init_profile(fs, filepath) ==
    IF filepath = "" THEN Ok(<<>>) ELSE import_from_file(fs, filepath)

Paths == {"a.pkl", "b.pkl"}

\* What a file holds before the program first touches it.
SeedFiles ==
    {NoFile,
     FileOf(<<>>),
     FileOf(pickle_dump(ListObj(<<>>))),
     FileOf(pickle_dump(ListObj(<<DemandData("1")>>))),
     FileOf(pickle_dump(ListObj(<<DemandData("1"), IntObj("7")>>))),
     FileOf(pickle_dump(ListObj(<<IntObj("7"), DemandData("1")>>))),
     FileOf(pickle_dump(IntObj("7"))),
     FileOf(pickle_dump(DemandData("1")))}

\* A fresh ExternalDemandProfile() and any files.
InitProfile ==
    /\ op = "idle"
    /\ args = NoArgs
    /\ ret = Ok(<<>>)
    /\ files \in [Paths -> SeedFiles]
    /\ ext_demand_matrix = <<>>
    /\ warned = 0

\* profile = ExternalDemandProfile(filepath); when __init__ raises, the
\* caller keeps the profile it had.
Construct ==
    \E filepath \in Paths \cup {""} :
        LET made == init_profile(files, filepath)
        IN  /\ op' = "ExternalDemandProfile"
            /\ args' = [filepath |-> filepath]
            /\ ret' = IF made.err = "none" THEN Ok(<<>>) ELSE made
            /\ ext_demand_matrix' =
                 IF made.err = "none" THEN made.val ELSE ext_demand_matrix
            /\ warned' = 0
            /\ UNCHANGED files

\* A caller appends one ExternalDemandData to profile.ext_demand_matrix.
AppendDemandData ==
    /\ Len(ext_demand_matrix) < MaxMatrixLen
    /\ \E data \in DemandDatas :
        /\ op' = "append"
        /\ args' = [data |-> data]
        /\ ret' = Ok(<<>>)
        /\ ext_demand_matrix' = Append(ext_demand_matrix, data)
        /\ warned' = 0
        /\ UNCHANGED files

\* profile.export_to_file(filepath)
Export ==
    \E filepath \in Paths :
        LET done == export_to_file(ext_demand_matrix, files, filepath)
        IN  /\ op' = "export_to_file"
            /\ args' = [filepath |-> filepath,
                        file_before |-> files[filepath]]
            /\ ret' = done.ret
            /\ files' = done.files
            /\ warned' = done.warned
            /\ UNCHANGED ext_demand_matrix

NextProfile == Construct \/ AppendDemandData \/ Export
SpecProfile == InitProfile /\ [][NextProfile]_vars

---------------------------------------------------------------------------
(* Properties of ExternalDemandProfile.                                    *)

\* C8: export_to_file on a profile whose ext_demand_matrix is empty raises
\* and leaves the target path as it was: no file is created, an existing
\* file keeps its content, and no warning is emitted.
C8_EmptyExportAborts ==
    (op = "export_to_file" /\ Len(ext_demand_matrix) = 0) =>
        /\ ret = Raise(NoDataError)
        /\ files[args.filepath] = args.file_before
        /\ warned = 0

\* An empty profile exported over an existing, non-empty file.
C8_Witness ==
    /\ op = "export_to_file"
    /\ Len(ext_demand_matrix) = 0
    /\ args.file_before.exists
    /\ Len(args.file_before.bytes) > 0
    /\ ret.err # "none"

\* C9: export_to_file on a non-empty profile does not fail and leaves in
\* the file the serialization of the current ext_demand_matrix, replacing
\* what the file held; it warns exactly when the path existed before.
C9_ExportOverwrites ==
    (op = "export_to_file" /\ Len(ext_demand_matrix) > 0) =>
        /\ ret.err = "none"
        /\ files[args.filepath] =
              FileOf(pickle_dump(ListObj(ext_demand_matrix)))
        /\ pickle_load(files[args.filepath].bytes)
              = Ok(ListObj(ext_demand_matrix))
        /\ warned = (IF args.file_before.exists THEN 1 ELSE 0)

\* A non-empty profile exported over an existing file of other content.
C9_Witness ==
    /\ op = "export_to_file"
    /\ Len(ext_demand_matrix) = 2
    /\ args.file_before.exists
    /\ Len(args.file_before.bytes) > 0
    /\ args.file_before # files[args.filepath]
    /\ warned = 1
    /\ ret.err = "none"

\* A non-empty profile exported to a path that did not exist.
C9_WitnessNewFile ==
    /\ op = "export_to_file"
    /\ Len(ext_demand_matrix) > 0
    /\ ~args.file_before.exists
    /\ files[args.filepath].exists
    /\ warned = 0

\* C10: constructing ExternalDemandProfile from a file succeeds, with
\* ext_demand_matrix the deserialized payload, exactly when the payload is
\* a list whose first element is an ExternalDemandData; for every other
\* payload, the empty list and a non-list included, it fails with the
\* type-mismatch error "File has incorrect data type. Import aborted.".
C10_TypeMismatchOtherwise ==
    (op = "ExternalDemandProfile" /\ args.filepath # ""
        /\ files[args.filepath].exists
        /\ pickle_load(files[args.filepath].bytes).err = "none")
    => LET payload == pickle_load(files[args.filepath].bytes).val
       IN  IF payload.cls = "list" /\ Len(payload.v) > 0
                /\ payload.v[1].cls = "ExternalDemandData"
           THEN ret.err = "none" /\ ext_demand_matrix = payload.v
           ELSE ret = Raise(TypeMismatchError)

---------------------------------------------------------------------------
(* get_linear_regression                                                   *)
(*                                                                         *)
(* A float is an exact rational <<numerator, denominator>> in lowest       *)
(* terms with a positive denominator; nan is <<0, 0>>.  The arguments are  *)
(* the column arrays convert_flow_per_time_to_list returns.                *)

MaxSample == 2          \* regression samples are 0..MaxSample
MaxPoints == 3          \* longest sample sequence

Abs(k) == IF k < 0 THEN -k ELSE k

RECURSIVE GCD(_, _)
GCD(a, b) == IF b = 0 THEN a ELSE GCD(b, a % b)

NaN == <<0, 0>>
Rat(n, d) ==
    IF d = 0 THEN NaN
    ELSE LET g == GCD(Abs(n), Abs(d))
         IN  IF d < 0 THEN <<(-n) \div g, (-d) \div g>>
             ELSE <<n \div g, d \div g>>
FromInt(k) == <<k, 1>>
RatAdd(a, b) == Rat(a[1] * b[2] + b[1] * a[2], a[2] * b[2])
RatSub(a, b) == Rat(a[1] * b[2] - b[1] * a[2], a[2] * b[2])
RatMul(a, b) == Rat(a[1] * b[1], a[2] * b[2])
RatDiv(a, b) == Rat(a[1] * b[2], a[2] * b[1])
RatAbs(a) == <<Abs(a[1]), a[2]>>

\* The values of a column array, and sums over them.
Column(array) == [k \in DOMAIN array |-> array[k][1]]
RECURSIVE SumTo(_, _)
SumTo(list, k) == IF k = 0 THEN 0 ELSE SumTo(list, k - 1) + list[k]
Sum(list) == SumTo(list, Len(list))
Products(a, b) == [k \in DOMAIN a |-> a[k] * b[k]]
RECURSIVE RatSumTo(_, _)
RatSumTo(list, k) ==
    IF k = 0 THEN FromInt(0) ELSE RatAdd(RatSumTo(list, k - 1), list[k])

\* LinearRegression(fit_intercept).fit(X, y): the least-squares line of y
\* on x, through the origin when fit_intercept is False; the minimum-norm
\* solution (slope 0) when x does not vary.
LinearRegressionFit(xs, ys, fit_intercept) ==
    IF Len(xs) = 0 \/ Len(ys) = 0 \/ Len(xs) # Len(ys)
    THEN Raise("ValueError")
    ELSE LET n == Len(xs)
             sx == Sum(xs)
             sy == Sum(ys)
             sxx == Sum(Products(xs, xs))
             sxy == Sum(Products(xs, ys))
         IN  IF fit_intercept
             THEN LET coef == IF n * sxx - sx * sx = 0 THEN FromInt(0)
                              ELSE Rat(n * sxy - sx * sy, n * sxx - sx * sx)
                  IN  Ok([coef |-> coef,
                          intercept |->
                              RatDiv(RatSub(FromInt(sy),
                                            RatMul(coef, FromInt(sx))),
                                     FromInt(n))])
             ELSE Ok([coef |-> IF sxx = 0 THEN FromInt(0) ELSE Rat(sxy, sxx),
                      intercept |-> FromInt(0)])

\* The line's own prediction at x.
Predict(fit, x) == RatAdd(RatMul(fit.coef, FromInt(x)), fit.intercept)

\* LinearRegression.score(X, y): the coefficient of determination; nan for
\* fewer than two samples; 1 or 0 when y does not vary.
LinearRegressionScore(fit, xs, ys) ==
    LET n == Len(xs)
        residuals == [k \in DOMAIN xs |->
                        LET r == RatSub(FromInt(ys[k]), Predict(fit, xs[k]))
                        IN  RatMul(r, r)]
        ss_res == RatSumTo(residuals, n)
        ss_tot == Rat(n * Sum(Products(ys, ys)) - Sum(ys) * Sum(ys), n)
    IN  IF n < 2 THEN NaN
        ELSE IF ss_tot[1] = 0
        THEN (IF ss_res[1] = 0 THEN FromInt(1) ELSE FromInt(0))
        ELSE RatSub(FromInt(1), RatDiv(ss_res, ss_tot))

RECURSIVE MaxTo(_, _)
MaxTo(list, k) ==
    IF k = 1 THEN list[1]
    ELSE LET m == MaxTo(list, k - 1) IN IF list[k] > m THEN list[k] ELSE m

\* Variant: fewer than two points are refused before the fit.
get_linear_regression_min_two(real_data_list, simulated_data_list, enforce_intercept) ==
    LET xs == Column(real_data_list)
        ys == Column(simulated_data_list)
        fitted == LinearRegressionFit(xs, ys, ~enforce_intercept)
    IN  IF Len(xs) < 2 THEN Raise("ValueError")
        ELSE IF fitted.err # "none" THEN fitted
        ELSE LET slope == fitted.val.coef
                 intercept == RatAbs(fitted.val.intercept)
                 r_sq == LinearRegressionScore(fitted.val, xs, ys)
                 yhat == [k \in DOMAIN xs |->
                            <<RatAdd(RatMul(slope, FromInt(xs[k])), intercept)>>]
                 max_val == MaxTo(xs, Len(xs))
             IN  Ok(<<slope, intercept, r_sq, max_val, yhat>>)

\* Variant: fit_intercept is passed enforce_intercept itself.
get_linear_regression_flag_kept(real_data_list, simulated_data_list, enforce_intercept) ==
    LET xs == Column(real_data_list)
        ys == Column(simulated_data_list)
        fitted == LinearRegressionFit(xs, ys, enforce_intercept)
    IN  IF fitted.err # "none" THEN fitted
        ELSE LET slope == fitted.val.coef
                 intercept == RatAbs(fitted.val.intercept)
                 r_sq == LinearRegressionScore(fitted.val, xs, ys)
                 yhat == [k \in DOMAIN xs |->
                            <<RatAdd(RatMul(slope, FromInt(xs[k])), intercept)>>]
                 max_val == MaxTo(xs, Len(xs))
             IN  Ok(<<slope, intercept, r_sq, max_val, yhat>>)

\* Returns <<slope, intercept, r_sq, max_val, yhat>>.
get_linear_regression(real_data_list, simulated_data_list, enforce_intercept) ==
    LET xs == Column(real_data_list)
        ys == Column(simulated_data_list)
        fitted == LinearRegressionFit(xs, ys, ~enforce_intercept)
    IN  IF fitted.err # "none" THEN fitted
        ELSE LET slope == fitted.val.coef
                 intercept == RatAbs(fitted.val.intercept)
                 r_sq == LinearRegressionScore(fitted.val, xs, ys)
                 yhat == [k \in DOMAIN xs |->
                            <<RatAdd(RatMul(slope, FromInt(xs[k])), intercept)>>]
                 max_val == MaxTo(xs, Len(xs))
             IN  Ok(<<slope, intercept, r_sq, max_val, yhat>>)

SampleArrays == {Reshape(list) : list \in SeqsUpTo(0..MaxSample, MaxPoints)}

CallRegression ==
    /\ op = "idle"
    /\ \E real_data_list \in SampleArrays,
          simulated_data_list \in SampleArrays,
          enforce_intercept \in BOOLEAN :
        /\ op' = "get_linear_regression"
        /\ args' = [real_data_list |-> real_data_list,
                    simulated_data_list |-> simulated_data_list,
                    enforce_intercept |-> enforce_intercept]
        /\ ret' = get_linear_regression(real_data_list, simulated_data_list,
                                        enforce_intercept)
    /\ UNCHANGED <<files, ext_demand_matrix, warned>>

NextRegression == CallRegression
SpecRegression == Idle /\ [][NextRegression]_vars

IsRegression == op = "get_linear_regression"

\* C11: with enforce_intercept=True get_linear_regression returns the
\* intercept 0 exactly, and its predicted sequence is slope times x at
\* every index.
C11_ZeroIntercept ==
    (IsRegression /\ args.enforce_intercept /\ ret.err = "none") =>
        /\ ret.val[2] = FromInt(0)
        /\ Len(ret.val[5]) = Len(args.real_data_list)
        /\ \A k \in DOMAIN args.real_data_list :
              ret.val[5][k] =
                 <<RatMul(ret.val[1], FromInt(args.real_data_list[k][1]))>>

\* Three points that no line through the origin fits, and whose
\* least-squares line does not pass through the origin.
C11_Witness ==
    /\ IsRegression
    /\ args.enforce_intercept
    /\ args.real_data_list = <<<<0>>, <<1>>, <<2>>>>
    /\ args.simulated_data_list = <<<<2>>, <<1>>, <<2>>>>
    /\ ret.err = "none"
    /\ ret.val[1] = Rat(1, 1)

\* C12: the predicted sequence yhat is the value of the fitted
\* least-squares line at each input x, also when the fitted intercept is
\* negative (the returned intercept being its absolute value).
C12_YhatOnFittedLine ==
    (IsRegression /\ ret.err = "none") =>
        LET xs == Column(args.real_data_list)
            ys == Column(args.simulated_data_list)
            line == LinearRegressionFit(xs, ys, ~args.enforce_intercept).val
        IN  /\ ret.val[2] = RatAbs(line.intercept)
            /\ \A k \in DOMAIN xs : ret.val[5][k] = <<Predict(line, xs[k])>>

\* C13 as stated: fewer than two paired points make get_linear_regression
\* fail, and so do sequences of different lengths (ValueError); no fit is
\* returned in either case.
C13_FewerThanTwoFails ==
    IsRegression =>
        /\ Len(args.real_data_list) # Len(args.simulated_data_list)
            => ret = Raise("ValueError")
        /\ (Len(args.real_data_list) = Len(args.simulated_data_list)
                /\ Len(args.real_data_list) < 2)
            => ret.err # "none"

\* C13 amended: get_linear_regression fails with ValueError, returning no
\* fit, when the sequences differ in length or hold no point; one paired
\* point is fitted, with an undefined (nan) r_sq.
C13_NoPointOrMismatchFails ==
    IsRegression =>
        /\ (Len(args.real_data_list) # Len(args.simulated_data_list)
                \/ Len(args.real_data_list) = 0)
            => ret = Raise("ValueError")
        /\ (Len(args.real_data_list) = 1 /\ Len(args.simulated_data_list) = 1)
            => (ret.err = "none" /\ ret.val[3] = NaN
                /\ Len(ret.val[5]) = 1)

\* One paired point, fitted with an intercept.
C13_Witness ==
    /\ IsRegression
    /\ ~args.enforce_intercept
    /\ args.real_data_list = <<<<1>>>>
    /\ args.simulated_data_list = <<<<2>>>>
    /\ ret.err = "none"
    /\ ret.val[1] = FromInt(0)
    /\ ret.val[2] = FromInt(2)

\* Sequences of different lengths, both with two points or more.
C13_WitnessMismatch ==
    /\ IsRegression
    /\ Len(args.real_data_list) = 2
    /\ Len(args.simulated_data_list) = 3
    /\ ret.err = "ValueError"

\* -------------------------------------------------------------------------
\* process_real_flow_data (postprocessing_plot_util.py, lines 137-187).
\* A real data set is the sequence flow_data_set of records with an
\* external_id and a flow_data dict from a timedelta (minutes) to a count.

\* f"flow_{flow_real_data.external_id}"
FlowPrefix == <<"f", "l", "o", "w", "_">>

RECURSIVE RealFlowAtTimeNoShift(_, _, _, _)
\* Variant: the bucket is read at the time itself.
RealFlowAtTimeNoShift(flow_data_set, time, j, acc) ==
    IF j > Len(flow_data_set) THEN Ok(acc)
    ELSE LET flow_real_data == flow_data_set[j]
             detector_external_id == FlowPrefix \o flow_real_data.external_id
             ids == IF InList(detector_external_id, acc.ids) THEN acc.ids
                    ELSE Append(acc.ids, detector_external_id)
             time_in_timedelta == time
         IN  IF ~HasKey(flow_real_data.flow_data, time_in_timedelta)
             THEN Raise("KeyError")
             ELSE RealFlowAtTimeNoShift(flow_data_set, time, j + 1,
                    [ids |-> ids,
                     dict |-> DictPut(acc.dict, detector_external_id,
                                DictGet(flow_real_data.flow_data,
                                        time_in_timedelta) * 4)])

RECURSIVE RealFlowAtTime(_, _, _, _)
\* Lines 165-173: the inner loop over the records, for one time.
RealFlowAtTime(flow_data_set, time, j, acc) ==
    IF j > Len(flow_data_set) THEN Ok(acc)
    ELSE LET flow_real_data == flow_data_set[j]
             detector_external_id == FlowPrefix \o flow_real_data.external_id
             ids == IF InList(detector_external_id, acc.ids) THEN acc.ids
                    ELSE Append(acc.ids, detector_external_id)
             time_in_timedelta == time + 15
         IN  IF ~HasKey(flow_real_data.flow_data, time_in_timedelta)
             THEN Raise("KeyError")
             ELSE RealFlowAtTime(flow_data_set, time, j + 1,
                    [ids |-> ids,
                     dict |-> DictPut(acc.dict, detector_external_id,
                                DictGet(flow_real_data.flow_data,
                                        time_in_timedelta) * 4)])

RECURSIVE RealFlowPerTime(_, _, _, _)
\* Lines 163-174: the loop over time_list.
RealFlowPerTime(flow_data_set, time_list, i, acc) ==
    IF i > Len(time_list) THEN Ok(acc)
    ELSE LET row == RealFlowAtTime(flow_data_set, time_list[i], 1,
                                   [ids |-> acc.ids, dict |-> <<>>])
         IN  IF row.err # "none" THEN row
             ELSE RealFlowPerTime(flow_data_set, time_list, i + 1,
                    [ids |-> row.val.ids,
                     per_time |-> DictPut(acc.per_time, time_list[i],
                                          row.val.dict)])

\* min(time_list), max(time_list)
MinOf(list) == CHOOSE x \in {list[k] : k \in DOMAIN list} : \A k \in DOMAIN list : x <= list[k]
MaxOf(list) == CHOOSE x \in {list[k] : k \in DOMAIN list} : \A k \in DOMAIN list : x >= list[k]

RECURSIVE RealFlowItems(_, _, _, _)
\* Lines 181-184: the items of one record's flow_data.
RealFlowItems(flow_data, time_list, k, acc) ==
    IF k > Len(flow_data) THEN acc
    ELSE LET time_key == flow_data[k][1]
             flow_val == flow_data[k][2]
             time == time_key % 1440
         IN  RealFlowItems(flow_data, time_list, k + 1,
                IF MinOf(time_list) <= time /\ time <= MaxOf(time_list)
                THEN DictPut(acc, time, flow_val * 4)
                ELSE acc)

RECURSIVE RealFlowRecords(_, _, _, _, _)
\* Lines 179-184: the records that carry one detector id.
RealFlowRecords(flow_data_set, time_list, detector_external_id, j, acc) ==
    IF j > Len(flow_data_set) THEN acc
    ELSE RealFlowRecords(flow_data_set, time_list, detector_external_id, j + 1,
            IF FlowPrefix \o flow_data_set[j].external_id = detector_external_id
            THEN RealFlowItems(flow_data_set[j].flow_data, time_list, 1, acc)
            ELSE acc)

RECURSIVE RealFlowPerDetector(_, _, _, _, _)
\* Lines 177-185: the loop over detector_external_id_list.
RealFlowPerDetector(flow_data_set, time_list, detector_external_id_list, n, acc) ==
    IF n > Len(detector_external_id_list) THEN acc
    ELSE RealFlowPerDetector(flow_data_set, time_list,
            detector_external_id_list, n + 1,
            DictPut(acc, detector_external_id_list[n],
                    RealFlowRecords(flow_data_set, time_list,
                                    detector_external_id_list[n], 1, <<>>)))

process_real_flow_data(flow_data_set, time_list) ==
    LET grouped == RealFlowPerTime(flow_data_set, time_list, 1,
                                   [ids |-> <<>>, per_time |-> <<>>])
    IN  IF grouped.err # "none" THEN grouped
        ELSE LET real_flow_per_time == grouped.val.per_time
                 detector_external_id_list == grouped.val.ids
                 real_flow_per_detector ==
                     RealFlowPerDetector(flow_data_set, time_list,
                                         detector_external_id_list, 1, <<>>)
             IN  Ok(<<real_flow_per_time, real_flow_per_detector,
                      detector_external_id_list>>)

\* The inputs: one or two detectors' records, their buckets at 09:00,
\* 09:15 and 09:30.
SourceKeys == {540, 555, 570}
RealDetectorIds == {<<"1">>, <<"2">>}
FlowRealDatas == [external_id : RealDetectorIds, flow_data : SortedDictsOver(SourceKeys, Flows)]
RealFlowDataSets == {<<>>} \cup {<<a>> : a \in FlowRealDatas} \cup {<<a, b>> : a, b \in FlowRealDatas}

CallProcessReal ==
    /\ op = "idle"
    /\ \E flow_data_set \in RealFlowDataSets, time_list \in TimeLists :
        /\ op' = "process_real_flow_data"
        /\ args' = [flow_data_set |-> flow_data_set, time_list |-> time_list]
        /\ ret' = process_real_flow_data(flow_data_set, time_list)
    /\ UNCHANGED <<files, ext_demand_matrix, warned>>

NextRealFlow == CallProcessReal
SpecRealFlow == Idle /\ [][NextRealFlow]_vars

IsProcessReal == op = "process_real_flow_data"

\* C14: the two tables process_real_flow_data returns are transpositions of
\* each other over the study times: per_detector[d][t] exists and equals
\* per_time[t][d] for every detector d and every t of time_list, and
\* per_detector[d] has no time key outside time_list.
C14_TablesTransposed ==
    (IsProcessReal /\ ret.err = "none") =>
        LET per_time == ret.val[1]
            per_detector == ret.val[2]
        IN  \A n \in DOMAIN per_detector :
               /\ \A i \in DOMAIN args.time_list :
                     /\ HasKey(per_detector[n][2], args.time_list[i])
                     /\ HasKey(per_time, args.time_list[i])
                     /\ HasKey(DictGet(per_time, args.time_list[i]),
                               per_detector[n][1])
                     /\ DictGet(per_detector[n][2], args.time_list[i]) =
                           DictGet(DictGet(per_time, args.time_list[i]),
                                   per_detector[n][1])
               /\ \A t \in DictKeys(per_detector[n][2]) :
                     InList(t, args.time_list)

\* The last record of the data set that carries the external id of record j.
IsLastOfId(flow_data_set, j) ==
    \A k \in DOMAIN flow_data_set :
        flow_data_set[k].external_id = flow_data_set[j].external_id => k <= j

\* C15: per_time[t]['flow_' + external_id] is 4 times the raw count the
\* detector's record holds under the key t + 15 minutes, for every t of
\* time_list; a record lacking that bucket makes the call fail.
C15_ShiftedAndScaled ==
    IsProcessReal =>
        LET flow_data_set == args.flow_data_set
            time_list == args.time_list
            missing == \E i \in DOMAIN time_list, j \in DOMAIN flow_data_set :
                          ~HasKey(flow_data_set[j].flow_data, time_list[i] + 15)
        IN  IF missing THEN ret = Raise("KeyError")
            ELSE /\ ret.err = "none"
                 /\ \A i \in DOMAIN time_list, j \in DOMAIN flow_data_set :
                       IsLastOfId(flow_data_set, j) =>
                          /\ HasKey(ret.val[1], time_list[i])
                          /\ HasKey(DictGet(ret.val[1], time_list[i]),
                                    FlowPrefix \o flow_data_set[j].external_id)
                          /\ DictGet(DictGet(ret.val[1], time_list[i]),
                                     FlowPrefix \o flow_data_set[j].external_id)
                                = 4 * DictGet(flow_data_set[j].flow_data,
                                              time_list[i] + 15)

\* Two detectors over 09:00 and 09:15, every bucket present, the 09:00
\* bucket differing from the 09:15 one.
C15_Witness ==
    /\ IsProcessReal
    /\ args.time_list = <<540, 555>>
    /\ Len(args.flow_data_set) = 2
    /\ args.flow_data_set[1] = [external_id |-> <<"1">>, flow_data |-> <<<<540, 0>>, <<555, 1>>, <<570, 0>>>>]
    /\ args.flow_data_set[2].external_id = <<"2">>
    /\ ret.err = "none"
    /\ DictGet(DictGet(ret.val[1], 540), <<"f", "l", "o", "w", "_", "1">>) = 4
    /\ DictGet(DictGet(ret.val[1], 555), <<"f", "l", "o", "w", "_", "1">>) = 0

\* A record without the bucket 15 minutes after a study time.
C15_WitnessMissing ==
    /\ IsProcessReal
    /\ args.time_list = <<540>>
    /\ Len(args.flow_data_set) = 1
    /\ args.flow_data_set[1].flow_data = <<<<540, 1>>>>
    /\ ret.err = "KeyError"

---------------------------------------------------------------------------
(* The partition of the samples by city_common_id.                         *)

\* The (detector, real, simulated) samples of the times from position i of
\* time_list on, in the order of time_list and, within a time, of the real
\* table.
RECURSIVE SamplesFrom(_, _, _, _)
SamplesFrom(real_table, simulated_table, time_list, i) ==
    IF i > Len(time_list) THEN <<>>
    ELSE LET row == DictGet(real_table, time_list[i])
             simulated_row == DictGet(simulated_table, time_list[i])
         IN  [j \in DOMAIN row |->
                 <<row[j][1], row[j][2], DictGet(simulated_row, row[j][1])>>]
             \o SamplesFrom(real_table, simulated_table, time_list, i + 1)

InCity(sample) == IsSubstr(args.city_common_id[1], sample[1])
NotInCity(sample) == ~InCity(sample)
RealColumn(samples) == [k \in DOMAIN samples |-> <<samples[k][2]>>]
SimulatedColumn(samples) == [k \in DOMAIN samples |-> <<samples[k][3]>>]

\* C17: with city_common_id, convert_flow_per_time_to_list puts every
\* (time, detector) sample into exactly one of the two partitions, the city
\* one exactly when the detector id contains city_common_id (so a detector
\* is in the same partition at every time), and the city and PeMS lengths
\* add up to the length returned for the same tables without
\* city_common_id.
C17_CityPartition ==
    (IsConvert /\ args.city_common_id # None /\ ret.err = "none") =>
        LET samples == SamplesFrom(args.real_flow_per_time,
                           args.simulated_flow_per_time, args.time_list, 1)
            city == SelectSeq(samples, InCity)
            pems == SelectSeq(samples, NotInCity)
            unsplit == convert_flow_per_time_to_list(args.real_flow_per_time,
                           args.simulated_flow_per_time, args.time_list, None)
        IN  /\ ret.val[1] = RealColumn(city)
            /\ ret.val[2] = SimulatedColumn(city)
            /\ ret.val[3] = RealColumn(pems)
            /\ ret.val[4] = SimulatedColumn(pems)
            /\ unsplit.err = "none"
            /\ Len(ret.val[1]) + Len(ret.val[3]) = Len(unsplit.val[1])
            /\ Len(ret.val[2]) + Len(ret.val[4]) = Len(unsplit.val[2])

\* Both detectors at both times, the city detector listed second at 09:00:
\* two samples in each partition.
C17_Witness ==
    /\ IsConvert
    /\ args.city_common_id = Some(CityTag)
    /\ args.time_list = <<540, 555>>
    /\ HasKey(args.real_flow_per_time, 540)
    /\ HasKey(args.real_flow_per_time, 555)
    /\ Len(DictGet(args.real_flow_per_time, 540)) = 2
    /\ Len(DictGet(args.real_flow_per_time, 555)) = 2
    /\ DictGet(args.real_flow_per_time, 540)[1][1] = PemsDetector
    /\ DictGet(args.real_flow_per_time, 555)[1][1] = CityDetector
    /\ ret.err = "none"
    /\ Len(ret.val[1]) = 2
    /\ Len(ret.val[3]) = 2

---------------------------------------------------------------------------
(* process_micro_route_distance_data (postprocessing_plot_util.py, lines   *)
(* 391-431).  The Simulation Output Source answers two queries per         *)
(* (origin external id, destination internal id, time): the demand and     *)
(* the route distance.  Each report differs from one key to the next.      *)

ExternalIdOrder == <<"ext_1", "ext_2", "ext_3">>
OdKeys == ExternalIds \X InternalIds \X Times
OdReport(base) == [key \in OdKeys |-> base + (MaxFlow + 1) * ((CHOOSE n \in DOMAIN ExternalIdOrder : ExternalIdOrder[n] = key[1]) + 4 * (key[2] + 4 * key[3]))]
OdDatabases == [demand : {OdReport(b) : b \in Flows}, route_distance : {OdReport(b) : b \in Flows}]

get_od_demand(db, origin_centroid_ext_id, dest_centroid_int_id, time_step) == db.demand[<<origin_centroid_ext_id, dest_centroid_int_id, time_step>>]
get_od_route_distance(db, origin_centroid_ext_id, dest_centroid_int_id, time_step) == db.route_distance[<<origin_centroid_ext_id, dest_centroid_int_id, time_step>>]

RECURSIVE RouteDistanceAtTimes(_, _, _, _, _, _)
\* Lines 421-426: for time_step in time_list.
RouteDistanceAtTimes(db, origin_centroid_ext_id, dest_centroid_int_id, time_list, k, acc) ==
    IF k > Len(time_list) THEN acc
    ELSE LET od_route_distance ==
                 get_od_demand(db, origin_centroid_ext_id,
                               dest_centroid_int_id, time_list[k])
         IN  RouteDistanceAtTimes(db, origin_centroid_ext_id,
                dest_centroid_int_id, time_list, k + 1,
                DictPut(acc, time_list[k], od_route_distance))

RECURSIVE RouteDistanceToDests(_, _, _, _, _, _)
\* Lines 418-428: for dest_centroid_ext_id, dest_centroid_int_id in items().
RouteDistanceToDests(db, origin_centroid_ext_id, ext_int_id_dict, time_list, j, acc) ==
    IF j > Len(ext_int_id_dict) THEN acc
    ELSE RouteDistanceToDests(db, origin_centroid_ext_id, ext_int_id_dict,
            time_list, j + 1,
            DictPut(acc, ext_int_id_dict[j][1],
                    RouteDistanceAtTimes(db, origin_centroid_ext_id,
                        ext_int_id_dict[j][2], time_list, 1, <<>>)))

RECURSIVE RouteDistanceFromOrigins(_, _, _, _, _)
\* Lines 416-430: for origin_centroid_ext_id in keys().
RouteDistanceFromOrigins(db, ext_int_id_dict, time_list, i, acc) ==
    IF i > Len(ext_int_id_dict) THEN acc
    ELSE RouteDistanceFromOrigins(db, ext_int_id_dict, time_list, i + 1,
            DictPut(acc, ext_int_id_dict[i][1],
                    RouteDistanceToDests(db, ext_int_id_dict[i][1],
                        ext_int_id_dict, time_list, 1, <<>>)))

process_micro_route_distance_data(db, external_centroids_ext_int_id_dict, time_list) ==
    Ok(RouteDistanceFromOrigins(db, external_centroids_ext_int_id_dict,
                                time_list, 1, <<>>))

ExtIntIdDicts == DictsOver(ExternalIds, InternalIds)

CallRouteDistance ==
    /\ op = "idle"
    /\ \E db \in OdDatabases, ext_int_id_dict \in ExtIntIdDicts,
          time_list \in TimeLists :
        /\ op' = "process_micro_route_distance_data"
        /\ args' = [simulation_results_database |-> db,
                    external_centroids_ext_int_id_dict |-> ext_int_id_dict,
                    time_list |-> time_list]
        /\ ret' = process_micro_route_distance_data(db, ext_int_id_dict,
                                                    time_list)
    /\ UNCHANGED <<files, ext_demand_matrix, warned>>

NextRouteDistance == CallRouteDistance
SpecRouteDistance == Idle /\ [][NextRouteDistance]_vars

\* C18: process_micro_route_distance_data returns, for every ordered pair
\* (origin, destination) of the given external centroids, origin =
\* destination included, and every time of time_list, the route distance
\* the Simulation Output Source reports for that pair at that time through
\* its route-distance query.
C18_ReportsRouteDistance ==
    (op = "process_micro_route_distance_data" /\ ret.err = "none") =>
        LET ids == args.external_centroids_ext_int_id_dict
        IN  \A o \in DictKeys(ids), d \in DictKeys(ids) :
               \A k \in DOMAIN args.time_list :
                  /\ HasKey(ret.val, o)
                  /\ HasKey(DictGet(ret.val, o), d)
                  /\ HasKey(DictGet(DictGet(ret.val, o), d), args.time_list[k])
                  /\ DictGet(DictGet(DictGet(ret.val, o), d), args.time_list[k])
                       = get_od_route_distance(args.simulation_results_database,
                            o, DictGet(ids, d), args.time_list[k])

---------------------------------------------------------------------------
(* Frame effects of the pivot and aggregation layer.  A call runs on an    *)
(* object store: a function from object names to values.  The store        *)
(* starts with the call's parameter objects (the fields of args) and the   *)
(* empty lists and dicts its first statements create; `env` binds each     *)
(* variable of the function to the object it names.  Every append and      *)
(* item assignment of the source is an update of the store at the object   *)
(* its variable is bound to, and every read goes to the store, so a        *)
(* variable bound to a parameter's object would write through to it.       *)

NewObjects(env, inputs) == [o \in {env[v] : v \in DOMAIN env} \ DOMAIN inputs |-> <<>>]
InputsOf(store, inputs) == [n \in DOMAIN inputs |-> store[n]]
ListAppend(store, obj, v) == [store EXCEPT ![obj] = Append(@, v)]
SetItem(store, obj, k, v) == [store EXCEPT ![obj] = DictPut(@, k, v)]
Rebind(store, obj) == [store EXCEPT ![obj] = <<>>]

\* Variant: all_real_flow_list = time_list.
ConvertEnvAliased == [real_flow_per_time |-> "real_flow_per_time", simulated_flow_per_time |-> "simulated_flow_per_time", time_list |-> "time_list", all_real_flow_list |-> "time_list", all_simulated_flow_list |-> "new_all_simulated_flow_list", city_real_flow_list |-> "new_city_real_flow_list", city_simulated_flow_list |-> "new_city_simulated_flow_list", pems_real_flow_list |-> "new_pems_real_flow_list", pems_simulated_flow_list |-> "new_pems_simulated_flow_list"]

\* convert_flow_per_time_to_list: lines 57-58 and 69-72 bind the six result
\* lists to new lists.
ConvertEnv == [real_flow_per_time |-> "real_flow_per_time", simulated_flow_per_time |-> "simulated_flow_per_time", time_list |-> "time_list", all_real_flow_list |-> "new_all_real_flow_list", all_simulated_flow_list |-> "new_all_simulated_flow_list", city_real_flow_list |-> "new_city_real_flow_list", city_simulated_flow_list |-> "new_city_simulated_flow_list", pems_real_flow_list |-> "new_pems_real_flow_list", pems_simulated_flow_list |-> "new_pems_simulated_flow_list"]

RECURSIVE ConvertItemsStore(_, _, _, _, _)
\* Lines 62-66 and 76-85: the loop over real_flow_dict.items().
ConvertItemsStore(store, env, city_common_id, time, j) ==
    LET real_flow_dict == DictGet(store[env.real_flow_per_time], time)
        simulated_flow_dict == DictGet(store[env.simulated_flow_per_time], time)
    IN  IF j > Len(real_flow_dict) THEN [err |-> "none", store |-> store]
        ELSE LET detector_external_id == real_flow_dict[j][1]
                 real_flow_value == real_flow_dict[j][2]
                 in_city == IF city_common_id = None THEN FALSE
                            ELSE IsSubstr(city_common_id[1], detector_external_id)
                 real_list == IF city_common_id = None THEN env.all_real_flow_list
                              ELSE IF in_city THEN env.city_real_flow_list
                              ELSE env.pems_real_flow_list
                 simulated_list ==
                     IF city_common_id = None THEN env.all_simulated_flow_list
                     ELSE IF in_city THEN env.city_simulated_flow_list
                     ELSE env.pems_simulated_flow_list
                 appended == ListAppend(store, real_list, real_flow_value)
             IN  IF ~HasKey(simulated_flow_dict, detector_external_id)
                 THEN [err |-> "KeyError", store |-> appended]
                 ELSE ConvertItemsStore(
                        ListAppend(appended, simulated_list,
                                   DictGet(simulated_flow_dict,
                                           detector_external_id)),
                        env, city_common_id, time, j + 1)

RECURSIVE ConvertTimesStore(_, _, _, _)
\* Lines 59-61 and 73-75: the loop over time_list.
ConvertTimesStore(store, env, city_common_id, i) ==
    IF i > Len(store[env.time_list]) THEN [err |-> "none", store |-> store]
    ELSE LET time == store[env.time_list][i]
         IN  IF ~HasKey(store[env.real_flow_per_time], time)
                \/ ~HasKey(store[env.simulated_flow_per_time], time)
             THEN [err |-> "KeyError", store |-> store]
             ELSE LET step == ConvertItemsStore(store, env, city_common_id,
                                                time, 1)
                  IN  IF step.err # "none" THEN step
                      ELSE ConvertTimesStore(step.store, env, city_common_id,
                                             i + 1)

\* convert_flow_per_time_to_list on the store: the parameter objects after
\* the call, and its outcome.
ConvertFrame(inputs) ==
    LET env == ConvertEnv
        out == ConvertTimesStore(inputs @@ NewObjects(env, inputs), env,
                                 inputs.city_common_id, 1)
        lists == IF inputs.city_common_id = None
                 THEN <<out.store[env.all_real_flow_list],
                        out.store[env.all_simulated_flow_list]>>
                 ELSE <<out.store[env.city_real_flow_list],
                        out.store[env.city_simulated_flow_list],
                        out.store[env.pems_real_flow_list],
                        out.store[env.pems_simulated_flow_list]>>
    IN  [inputs |-> InputsOf(out.store, inputs),
         ret |-> IF out.err # "none" THEN Raise(out.err)
                 ELSE IF \E k \in {1, Len(lists) - 1} :
                            Len(lists[k]) # Len(lists[k + 1])
                 THEN Raise("AssertionError")
                 ELSE Ok([k \in DOMAIN lists |-> Reshape(lists[k])])]

\* __revert_dict_of_dict: lines 194-195 are one comprehension; it binds no
\* variable to an object and only subscripts dict_to_return.
RevertFrame(inputs) ==
    [inputs |-> inputs, ret |-> revert_dict_of_dict(inputs.dict_to_return)]

\* process_micro_simulated_flow_data: lines 254-263 are one comprehension
\* over the two lists, the queries of the source and the transposition of
\* the new table.
ProcessMicroFrame(inputs) ==
    [inputs |-> inputs,
     ret |-> process_micro_simulated_flow_data(
                 inputs.simulation_results_database, inputs.time_list,
                 inputs.detector_external_id_list)]

\* find_centroid_internal_ids: line 339 binds centroid_ext_to_int_id to a
\* new dict; all_internal_external_ids is the list the source returns.
FindCentroidEnv == [all_internal_external_ids |-> "all_internal_external_ids", centroids_ext_id_list |-> "centroids_ext_id_list", centroid_ext_to_int_id |-> "new_centroid_ext_to_int_id"]

RECURSIVE FindCentroidStore(_, _, _)
\* Lines 342-344.
FindCentroidStore(store, env, i) ==
    IF i > Len(store[env.all_internal_external_ids]) THEN store
    ELSE LET id_pair == store[env.all_internal_external_ids][i]
         IN  FindCentroidStore(
                IF InList(id_pair[2], store[env.centroids_ext_id_list])
                THEN SetItem(store, env.centroid_ext_to_int_id,
                             id_pair[2], id_pair[1])
                ELSE store,
                env, i + 1)

FindCentroidFrame(inputs) ==
    LET env == FindCentroidEnv
        out == FindCentroidStore(inputs @@ NewObjects(env, inputs), env, 1)
    IN  [inputs |-> InputsOf(out, inputs),
         ret |-> Ok(out[env.centroid_ext_to_int_id])]

\* process_real_flow_data: lines 158-160 bind the three results to new
\* objects, lines 164 and 178 bind the row dicts to a new dict at every
\* turn of their loops.
ProcessRealEnv == [flow_data_set |-> "flow_data_set", time_list |-> "time_list", real_flow_per_time |-> "new_real_flow_per_time", real_flow_per_detector |-> "new_real_flow_per_detector", detector_external_id_list |-> "new_detector_external_id_list", flow_per_time_dict |-> "new_flow_per_time_dict", flow_per_detector_dict |-> "new_flow_per_detector_dict"]

RECURSIVE RealFlowAtTimeStore(_, _, _, _)
\* Lines 165-173.
RealFlowAtTimeStore(store, env, time, j) ==
    IF j > Len(store[env.flow_data_set]) THEN [err |-> "none", store |-> store]
    ELSE LET flow_real_data == store[env.flow_data_set][j]
             detector_external_id == FlowPrefix \o flow_real_data.external_id
             listed == IF InList(detector_external_id,
                                 store[env.detector_external_id_list])
                       THEN store
                       ELSE ListAppend(store, env.detector_external_id_list,
                                       detector_external_id)
             time_in_timedelta == time + 15
         IN  IF ~HasKey(flow_real_data.flow_data, time_in_timedelta)
             THEN [err |-> "KeyError", store |-> listed]
             ELSE RealFlowAtTimeStore(
                    SetItem(listed, env.flow_per_time_dict,
                            detector_external_id,
                            DictGet(flow_real_data.flow_data,
                                    time_in_timedelta) * 4),
                    env, time, j + 1)

RECURSIVE RealFlowPerTimeStore(_, _, _)
\* Lines 163-174.
RealFlowPerTimeStore(store, env, i) ==
    IF i > Len(store[env.time_list]) THEN [err |-> "none", store |-> store]
    ELSE LET time == store[env.time_list][i]
             row == RealFlowAtTimeStore(Rebind(store, env.flow_per_time_dict),
                                        env, time, 1)
         IN  IF row.err # "none" THEN row
             ELSE RealFlowPerTimeStore(
                    SetItem(row.store, env.real_flow_per_time, time,
                            row.store[env.flow_per_time_dict]),
                    env, i + 1)

RECURSIVE RealFlowItemsStore(_, _, _, _)
\* Lines 181-184.
RealFlowItemsStore(store, env, j, k) ==
    LET flow_data == store[env.flow_data_set][j].flow_data
    IN  IF k > Len(flow_data) THEN store
        ELSE LET time == flow_data[k][1] % 1440
             IN  RealFlowItemsStore(
                    IF MinOf(store[env.time_list]) <= time
                       /\ time <= MaxOf(store[env.time_list])
                    THEN SetItem(store, env.flow_per_detector_dict, time,
                                 flow_data[k][2] * 4)
                    ELSE store,
                    env, j, k + 1)

RECURSIVE RealFlowRecordsStore(_, _, _, _)
\* Lines 179-184.
RealFlowRecordsStore(store, env, detector_external_id, j) ==
    IF j > Len(store[env.flow_data_set]) THEN store
    ELSE RealFlowRecordsStore(
            IF FlowPrefix \o store[env.flow_data_set][j].external_id
                   = detector_external_id
            THEN RealFlowItemsStore(store, env, j, 1)
            ELSE store,
            env, detector_external_id, j + 1)

RECURSIVE RealFlowPerDetectorStore(_, _, _)
\* Lines 177-185.
RealFlowPerDetectorStore(store, env, n) ==
    IF n > Len(store[env.detector_external_id_list]) THEN store
    ELSE LET detector_external_id == store[env.detector_external_id_list][n]
             rows == RealFlowRecordsStore(
                         Rebind(store, env.flow_per_detector_dict), env,
                         detector_external_id, 1)
         IN  RealFlowPerDetectorStore(
                SetItem(rows, env.real_flow_per_detector,
                        detector_external_id,
                        rows[env.flow_per_detector_dict]),
                env, n + 1)

ProcessRealFrame(inputs) ==
    LET env == ProcessRealEnv
        grouped == RealFlowPerTimeStore(inputs @@ NewObjects(env, inputs),
                                        env, 1)
        out == IF grouped.err # "none" THEN grouped.store
               ELSE RealFlowPerDetectorStore(grouped.store, env, 1)
    IN  [inputs |-> InputsOf(out, inputs),
         ret |-> IF grouped.err # "none" THEN Raise(grouped.err)
                 ELSE Ok(<<out[env.real_flow_per_time],
                           out[env.real_flow_per_detector],
                           out[env.detector_external_id_list]>>)]

\* The inputs of the calls that are made twice.
FullSimulatedTable == SimulatedTableOf([t \in Times |-> Detectors])
CitySimulatedTable == SimulatedTableOf([t \in Times |-> {CityDetector}])
ConvertInputs == [real_flow_per_time : RealFlowTables, simulated_flow_per_time : {FullSimulatedTable, CitySimulatedTable}, time_list : TimeLists, city_common_id : CityCommonIds]
RevertInputs == [dict_to_return : FlowTables]
ProcessMicroInputs == [simulation_results_database : MicroDatabases, time_list : TimeLists, detector_external_id_list : DetectorLists]
FindCentroidInputs == [all_internal_external_ids : SeqsUpTo(InternalIds \X ExternalIds, 2), centroids_ext_id_list : SeqsUpTo(ExternalIds, MaxIdListLen)]
OtherDetector(a) == [a EXCEPT !.external_id = CHOOSE e \in RealDetectorIds : e # a.external_id]
ProcessRealInputs == [flow_data_set : {<<>>} \cup {<<a>> : a \in FlowRealDatas} \cup {<<a, a>> : a \in FlowRealDatas} \cup {<<a, OtherDetector(a)>> : a \in FlowRealDatas}, time_list : TimeLists]

\* Before its first call an operation has its inputs in args and no result.
InitFrame ==
    /\ \/ op = "twice:convert_flow_per_time_to_list" /\ args \in ConvertInputs
       \/ op = "twice:revert_dict_of_dict" /\ args \in RevertInputs
       \/ op = "twice:process_micro_simulated_flow_data" /\ args \in ProcessMicroInputs
       \/ op = "twice:find_centroid_internal_ids" /\ args \in FindCentroidInputs
       \/ op = "twice:process_real_flow_data" /\ args \in ProcessRealInputs
    /\ ret = <<>>
    /\ files = <<>>
    /\ ext_demand_matrix = <<>>
    /\ warned = 0

\* A call, the first or the second, on the objects args holds by then.
CallConvertOnStore ==
    /\ op = "twice:convert_flow_per_time_to_list"
    /\ Len(ret) < 2
    /\ args' = ConvertFrame(args).inputs
    /\ ret' = Append(ret, ConvertFrame(args).ret)
    /\ UNCHANGED <<op, files, ext_demand_matrix, warned>>

CallRevertOnStore ==
    /\ op = "twice:revert_dict_of_dict"
    /\ Len(ret) < 2
    /\ args' = RevertFrame(args).inputs
    /\ ret' = Append(ret, RevertFrame(args).ret)
    /\ UNCHANGED <<op, files, ext_demand_matrix, warned>>

CallProcessMicroOnStore ==
    /\ op = "twice:process_micro_simulated_flow_data"
    /\ Len(ret) < 2
    /\ args' = ProcessMicroFrame(args).inputs
    /\ ret' = Append(ret, ProcessMicroFrame(args).ret)
    /\ UNCHANGED <<op, files, ext_demand_matrix, warned>>

CallFindCentroidOnStore ==
    /\ op = "twice:find_centroid_internal_ids"
    /\ Len(ret) < 2
    /\ args' = FindCentroidFrame(args).inputs
    /\ ret' = Append(ret, FindCentroidFrame(args).ret)
    /\ UNCHANGED <<op, files, ext_demand_matrix, warned>>

CallProcessRealOnStore ==
    /\ op = "twice:process_real_flow_data"
    /\ Len(ret) < 2
    /\ args' = ProcessRealFrame(args).inputs
    /\ ret' = Append(ret, ProcessRealFrame(args).ret)
    /\ UNCHANGED <<op, files, ext_demand_matrix, warned>>

NextFrame ==
    \/ CallConvertOnStore
    \/ CallRevertOnStore
    \/ CallProcessMicroOnStore
    \/ CallFindCentroidOnStore
    \/ CallProcessRealOnStore
SpecFrame == InitFrame /\ [][NextFrame]_vars

\* The store runs return what the calls on values return.
StoreAgreesWithCalls ==
    \A n \in DOMAIN ret :
        /\ op = "twice:convert_flow_per_time_to_list" =>
              ret[n] = convert_flow_per_time_to_list(args.real_flow_per_time,
                           args.simulated_flow_per_time, args.time_list,
                           args.city_common_id)
        /\ op = "twice:find_centroid_internal_ids" =>
              ret[n] = find_centroid_internal_ids(
                           args.all_internal_external_ids,
                           args.centroids_ext_id_list)
        /\ op = "twice:process_real_flow_data" =>
              ret[n] = process_real_flow_data(args.flow_data_set,
                                              args.time_list)

\* C16: no operation of the pivot and aggregation layer changes any of its
\* inputs: after a call, returning or failing, every input equals its value
\* before the call, and a second call with the same inputs returns a result
\* equal to the first.
C16_InputsUnchanged ==
    [][/\ args' = args
       /\ Len(ret') = 2 => ret'[2] = ret'[1]]_vars

\* convert_flow_per_time_to_list called twice on two times of two
\* detectors, returning four samples each time.
C16_Witness ==
    /\ op = "twice:convert_flow_per_time_to_list"
    /\ Len(ret) = 2
    /\ args.city_common_id = None
    /\ args.time_list = <<540, 555>>
    /\ ret[1].err = "none"
    /\ Len(ret[1].val[1]) = 4
    /\ ret[2] = ret[1]

\* process_real_flow_data failing twice, after it has listed a detector.
C16_WitnessFailing ==
    /\ op = "twice:process_real_flow_data"
    /\ Len(ret) = 2
    /\ Len(args.flow_data_set) = 2
    /\ ret[1].err = "KeyError"
    /\ ret[2].err = "KeyError"

===========================================================================
